---- MODULE Spec2Model ----
(***************************************************************************)
(* A model of peanosynth: the egui front end (SynthApp::update), the       *)
(* blocking playback engine (SynthApp::run), the real-time output callback *)
(* (write_data) running on the audio thread, and the serde data model of   *)
(* lib.rs (Project, Waveform, Parameters).                                 *)
(*                                                                         *)
(* Amplitudes are fixed-point numbers in thousandths: 1000 stands for the  *)
(* f64/f32 value 1.0.                                                      *)
(***************************************************************************)
EXTENDS Integers, Sequences, FiniteSets, TLC

VARIABLES
    pc,           \* position of the main (GUI) thread
    args,         \* the process's command-line arguments after the binary name
    argFile,      \* what reading the file named by the first argument yields
    project,      \* SynthApp.project (main.rs Project: time, sequence)
    device,       \* AudioDevice::default_device(): None, or the bound device
    synth,        \* the samples left in the iterator owned by the callback closure
    stream,       \* the cpal output stream: "none", "built", "playing", "paused"
    chan,         \* number of messages buffered in the sync_channel
    result,       \* the Result run() is about to return: "none", "Ok", "Err"
    cb,           \* the audio thread: "idle", "running" (inside write_data), "returned"
    output,       \* the buffer handed to the running/last callback
    frame,        \* number of chunks of output the running callback has written
    avail,        \* samples the source had left when the running/last callback began
    sent,         \* successful try_send calls of the current play() invocation
    received,     \* messages play() has taken out of the channel in this invocation
    generated,    \* number of samples signals_from_sequence produced for this play()
    written,      \* the value of each frame written during this play(), in order
    op,           \* the lib.rs operation applied to input: "ready" before it ran
    input,        \* the value or document handed to a lib.rs operation
    wire,         \* the JSON document serde_json::to_string produced, if any
    decoded       \* the Result of serde_json::from_str / Project::try_from

vars == <<pc, args, argFile, project, device, synth, stream, chan, result, cb,
          output, frame, avail, sent, received, generated, written, op, input, wire,
          decoded>>

----------------------------------------------------------------------------
(* Bounds of the model *)

MaxSeqLen == 2      \* longest Project.sequence
MaxTime == 2        \* largest Project.time, in seconds
MaxBufLen == 3      \* longest output slice the audio system hands to the callback
MaxSamples == 12    \* longest sample sequence that is played

(* Program constants *)

Hz == 440           \* carrier frequency
SliderMax == 60     \* upper end of the duration slider
ChannelBound == 1   \* capacity of the completion channel

Waveform == {"Sine", "Saw", "Square", "Noise", "NoiseSimplex"}

SampleFormat == {"F32", "I16", "U16"}

(* Device configurations the host may report: sample rates in samples per  *)
(* second (small, so that a second of audio is a few samples) and channel  *)
(* counts.                                                                 *)
SampleRates == {1, 3}

ChannelCounts == {1, 2}

SeqsUpTo(S, n) == UNION {[1..k -> S] : k \in 0..n}

Projects == [time : 0..MaxTime, sequence : SeqsUpTo(Waveform, MaxSeqLen)]

Min(a, b) == IF a < b THEN a ELSE b

----------------------------------------------------------------------------
(* Signal synthesis: dasp oscillators at a constant 440 Hz *)

\* Numerator of the phase of sample i (from 0) at rate R: phase = Phase / R.
Phase(i, R) == (i * Hz) % R

\* sin(2*pi*phase), by Bhaskara's rational approximation of the sine.
SineAt(i, R) ==
    LET p == Phase(i, R)
        a == IF 2 * p < R THEN 2 * p ELSE 2 * p - R
        h == (16000 * a * (R - a)) \div (5 * R * R - 4 * a * (R - a))
    IN  IF 2 * p < R THEN h ELSE 0 - h

\* phase * -2.0 + 1.0
SawAt(i, R) == 1000 - ((2000 * Phase(i, R)) \div R)

\* 1.0 while phase < 0.5, then -1.0
SquareAt(i, R) == IF 2 * Phase(i, R) < R THEN 1000 ELSE -1000

\* Simplex noise sampled along the unwrapped phase: a fixed function of it.
NoiseSimplexAt(i, R) == ((((i * Hz) \div R) * 389 + 17 * Phase(i, R)) % 2001) - 1000

\* signal::noise(seed): the seed advances by one per sample and is hashed.
NoiseAt(seed, i) ==
    LET s == seed + i + 1
    IN  ((((s * s * 15731 + 789221) % 100003) * s + 1376) % 2001) - 1000

Oscillator(w, i, R) ==
    CASE w = "Sine" -> SineAt(i, R)
      [] w = "Saw" -> SawAt(i, R)
      [] w = "Square" -> SquareAt(i, R)
      [] w = "NoiseSimplex" -> NoiseSimplexAt(i, R)
      [] w = "Noise" -> NoiseAt(0, i)

\* A segment length that ignores the Project's time (one second per entry).
TimeScaledOneSecond(R, time) == R

\* config.sample_rate.0 as usize * time
TimeScaled(R, time) == R * time

\* <oscillator>.take(time_scaled).collect()
Segment(w, R, n) == [i \in 1..n |-> Oscillator(w, i - 1, R)]

\* A fold in which an entry's oscillator goes on from where the samples so far
\* have brought it, instead of starting afresh.
RECURSIVE FoldSegmentsContinuing(_, _, _, _)
FoldSegmentsContinuing(acc, sequence, R, n) ==
    IF sequence = <<>> THEN acc
    ELSE FoldSegmentsContinuing(
             acc \o [i \in 1..n |-> Oscillator(Head(sequence), Len(acc) + i - 1, R)],
             Tail(sequence), R, n)

\* The fold over the sequence: acc.chain(v) for each entry, from an empty Vec.
RECURSIVE FoldSegments(_, _, _, _)
FoldSegments(acc, sequence, R, n) ==
    IF sequence = <<>> THEN acc
    ELSE FoldSegments(acc \o Segment(Head(sequence), R, n), Tail(sequence), R, n)

\* The fold started from one sample of equilibrium instead of none.
signals_from_sequence_take1(p, d) ==
    FoldSegments(<<0>>, p.sequence, d.sample_rate, TimeScaled(d.sample_rate, p.time))

signals_from_sequence(p, d) ==
    FoldSegments(<<>>, p.sequence, d.sample_rate, TimeScaled(d.sample_rate, p.time))

\* s.to_sample::<f32>() * 0.2
Scale(s) == (s * 2) \div 10

Synth(p, d) ==
    LET signals == signals_from_sequence(p, d)
    IN  [i \in 1..Len(signals) |-> Scale(signals[i])]

----------------------------------------------------------------------------
(* The output callback *)

\* cpal::Sample::from::<f32>: the device's own conversion of an f32 sample.
FromF32(fmt, x) ==
    CASE fmt = "F32" -> x
      [] fmt = "I16" -> IF x >= 0 THEN (x * 32767) \div 1000
                        ELSE 0 - (((0 - x) * 32768) \div 1000)
      [] fmt = "U16" -> ((x + 1000) * 65535 + 1000) \div 2000

\* A slot of the output slice: whether write_data has assigned it, and to what.
Stale == [set |-> FALSE, val |-> 0]

Written(v) == [set |-> TRUE, val |-> v]

\* output.chunks_mut(channels): the number of chunks of a slice of n samples.
Chunks(n, channels) == (n + channels - 1) \div channels

\* The slots of chunk k (from 1) of a slice of n samples.
ChunkSlots(k, n, channels) == ((k - 1) * channels + 1)..Min(k * channels, n)

\* A send that never finds the channel full (an unbounded channel).
TrySendUnbounded(c) == TRUE

\* complete_tx.try_send(()): succeeds while the channel's buffer has room.
TrySendOk(c) == c < ChannelBound

\* An exhausted source mapped to full scale instead of 0.0.
NextSampleFullScale(s) == IF s = <<>> THEN 1000 ELSE Head(s)

\* signal.next(), None mapped to 0.0
NextSample(s) == IF s = <<>> THEN 0 ELSE Head(s)

\* An end of the source announced while two samples are still to come.
ExhaustedEarly(s) == Len(s) <= 2

\* signal.next() is None: the arm of the match that signals completion.
Exhausted(s) == s = <<>>

\* A source that every pull finds where it was.
AdvanceNowhere(s) == s

\* A source that loses a sample each time one is pulled.
AdvanceTwice(s) == IF Len(s) <= 1 THEN <<>> ELSE Tail(Tail(s))

\* signal.next(): the source after the call.
Advance(s) == IF s = <<>> THEN <<>> ELSE Tail(s)

\* The frames of a play() that are recorded in written: one for each of the n
\* samples, and the first frame after them.
Recorded(n) == n + 1

----------------------------------------------------------------------------
(* State *)

\* What AudioDevice::default_device() can return.
NoDevice == [present |-> FALSE, sample_format |-> "F32", sample_rate |-> 1, channels |-> 1]

\* The default devices considered: of the formats, rates and channel counts,
\* every two values of different kinds occur together in one of them.
Devices ==
    {d \in [present : {TRUE}, sample_format : SampleFormat, sample_rate : SampleRates,
            channels : ChannelCounts] :
        <<d.sample_format, d.sample_rate, d.channels>> \in
            {<<"F32", 1, 1>>, <<"F32", 3, 2>>, <<"I16", 1, 2>>, <<"I16", 3, 1>>,
             <<"U16", 1, 1>>, <<"U16", 3, 2>>}}

\* The project file a user may name on the command line, and what reading it gives.
ProjectPath == "project.json"

UserProject == [time |-> 1, sequence |-> <<"Noise", "Sine", "Noise">>]

FileStates ==
    {[kind |-> "missing"], [kind |-> "malformed"], [kind |-> "project", doc |-> UserProject]}

NoFile == [kind |-> "none"]

NoProject == [time |-> 0, sequence |-> <<>>]

Null == [kind |-> "none"]

InitApp ==
    /\ pc = "Boot"
    /\ device \in Devices \cup {NoDevice}
    /\ project = NoProject
    /\ synth = <<>>
    /\ stream = "none"
    /\ chan = 0
    /\ result = "none"
    /\ cb = "idle"
    /\ output = <<>>
    /\ frame = 0
    /\ avail = 0
    /\ sent = 0
    /\ received = 0
    /\ generated = 0
    /\ written = <<>>
    /\ op = "none"
    /\ input = Null
    /\ wire = Null
    /\ decoded = Null

\* The binary started without arguments.
Init ==
    /\ args = <<>>
    /\ argFile = NoFile
    /\ InitApp

\* The binary started with a project file path as its first argument.
InitArgs ==
    /\ args = <<ProjectPath>>
    /\ argFile \in FileStates
    /\ InitApp

audio == <<synth, stream, chan, cb, output, frame, avail, sent, received, generated,
           written>>

lib == <<op, input, wire, decoded>>

env == <<args, argFile, lib>>

----------------------------------------------------------------------------
(* The main thread *)

\* main(): SynthApp::new() decodes the embedded document (one of Projects) and
\* unwraps the default device; the arguments are not consulted.
Main ==
    /\ pc = "Boot"
    /\ IF device.present
          THEN /\ \E p \in Projects : project' = p
               /\ pc' = "Idle"
          ELSE /\ pc' = "Panicked"
               /\ UNCHANGED project
    /\ UNCHANGED <<env, device, result, audio>>

\* The slider range of another iteration of the application.
SliderRangeWide == 0..3600

\* egui::Slider::new(&mut self.project.time, 0..=60): the values a drag or a
\* typed entry can give the bound variable.
SliderRange == 0..SliderMax

\* A window that still handles a drag while play() has not returned.
SliderDragWhilePlaying ==
    /\ pc # "Boot"
    /\ pc # "Panicked"
    /\ \E t \in SliderRange : project' = [project EXCEPT !.time = t]
    /\ UNCHANGED <<pc, env, device, result, audio>>

\* update() with the slider dragged to t; the Play button is not clicked.
SliderDrag ==
    /\ pc = "Idle"
    /\ \E t \in SliderRange : project' = [project EXCEPT !.time = t]
    /\ UNCHANGED <<pc, env, device, result, audio>>

\* update() with Play clicked: play() -> run(): the samples are synthesized, the
\* channel is created and build_output_stream is called. (Only durations up to
\* MaxTime and sequences of up to MaxSamples samples are played.)
PlayClicked ==
    /\ pc = "Idle"
    /\ project.time <= MaxTime
    /\ Len(project.sequence) * device.sample_rate * project.time <= MaxSamples
    /\ synth' = Synth(project, device)
    /\ generated' = Len(signals_from_sequence(project, device))
    /\ \E ok \in BOOLEAN :
          IF ok THEN stream' = "built" /\ pc' = "Start" /\ result' = "none"
          ELSE stream' = "none" /\ pc' = "Finish" /\ result' = "Err"
    /\ UNCHANGED <<env, project, device, chan, cb, output, frame, avail,
                   sent, received, written>>

\* A start whose error is only looked at after the wait for completion.
StreamPlayDeferError ==
    /\ pc = "Start"
    /\ \E ok \in BOOLEAN :
          IF ok THEN stream' = "playing" /\ pc' = "Recv" /\ result' = "none"
          ELSE stream' = stream /\ pc' = "Recv" /\ result' = "Err"
    /\ UNCHANGED <<env, project, device, synth, chan, cb, output, frame,
                   avail, sent, received, generated, written>>

\* stream.play()?
StreamPlay ==
    /\ pc = "Start"
    /\ \E ok \in BOOLEAN :
          IF ok THEN stream' = "playing" /\ pc' = "Recv" /\ result' = "none"
          ELSE stream' = stream /\ pc' = "Finish" /\ result' = "Err"
    /\ UNCHANGED <<env, project, device, synth, chan, cb, output, frame,
                   avail, sent, received, generated, written>>

\* complete_rx.recv().unwrap(): blocks until a message is in the channel.
Recv ==
    /\ pc = "Recv"
    /\ chan > 0
    /\ chan' = chan - 1
    /\ received' = received + 1
    /\ pc' = "Pause"
    /\ UNCHANGED <<env, project, device, synth, stream, result, cb, output,
                   frame, avail, sent, generated, written>>

\* stream.pause()?; Ok(())
StreamPause ==
    /\ pc = "Pause"
    /\ \E ok \in BOOLEAN :
          IF ok THEN stream' = "paused" /\ result' = "Ok"
          ELSE stream' = stream /\ result' = "Err"
    /\ pc' = "Finish"
    /\ UNCHANGED <<env, project, device, synth, chan, cb, output, frame,
                   avail, sent, received, generated, written>>

\* run() returns: the stream is dropped (its callback ends first), then the
\* receiver; update() unwraps the Result.
Unwrap(r) == IF r = "Ok" THEN "Idle" ELSE "Panicked"

Finish ==
    /\ pc = "Finish"
    /\ cb # "running"
    /\ stream' = "none"
    /\ synth' = <<>>
    /\ chan' = 0
    /\ cb' = "idle"
    /\ output' = <<>>
    /\ frame' = 0
    /\ avail' = 0
    /\ sent' = 0
    /\ received' = 0
    /\ generated' = 0
    /\ written' = <<>>
    /\ result' = "none"
    /\ pc' = Unwrap(result)
    /\ UNCHANGED <<env, project, device>>

----------------------------------------------------------------------------
(* The audio thread *)

\* A stream that only runs once play() has been called on it.
RunningAfterPlay(st) == st = "playing"

\* The states of a stream in which the audio system calls its data callback:
\* once started, and, on the platforms that run a stream from its creation
\* (cpal: "not all platforms automatically run the stream upon creation"),
\* already when built.
Running(st) == st \in {"built", "playing"}

\* The audio system calls the data callback with a slice of n samples. Once
\* run() is returning, the drop of the stream lets a running callback end and
\* starts no other.
CallbackInvoke ==
    /\ Running(stream)
    /\ pc # "Finish"
    /\ cb # "running"
    /\ \E n \in 0..MaxBufLen : output' = [i \in 1..n |-> Stale]
    /\ cb' = "running"
    /\ frame' = 0
    /\ avail' = Len(synth)
    /\ UNCHANGED <<pc, env, project, device, synth, stream, chan, result,
                   sent, received, generated, written>>

\* Only the first channel of the frame is assigned.
WriteChunkFirstChannel(out, k, channels, value) ==
    [i \in DOMAIN out |->
        IF i = (k - 1) * channels + 1 THEN Written(value) ELSE out[i]]

\* for sample in frame.iter_mut() { *sample = value }
WriteChunk(out, k, channels, value) ==
    [i \in DOMAIN out |->
        IF i \in ChunkSlots(k, Len(out), channels) THEN Written(value) ELSE out[i]]

\* One iteration of write_data's loop over the chunks of the slice.
WriteFrame ==
    /\ cb = "running"
    /\ frame < Chunks(Len(output), device.channels)
    /\ synth' = Advance(synth)
    /\ IF Exhausted(synth) /\ TrySendOk(chan)
          THEN chan' = chan + 1 /\ sent' = sent + 1
          ELSE UNCHANGED <<chan, sent>>
    /\ output' = WriteChunk(output, frame + 1, device.channels,
                            FromF32(device.sample_format, NextSample(synth)))
    /\ written' = IF Len(written) < Recorded(generated)
                    THEN Append(written, FromF32(device.sample_format, NextSample(synth)))
                    ELSE written
    /\ frame' = frame + 1
    /\ UNCHANGED <<pc, env, project, device, stream, result, cb, avail,
                   received, generated>>

\* write_data returns once every chunk has been visited.
CallbackReturn ==
    /\ cb = "running"
    /\ frame = Chunks(Len(output), device.channels)
    /\ cb' = "returned"
    /\ UNCHANGED <<pc, env, project, device, synth, stream, chan, result,
                   output, frame, avail, sent, received, generated, written>>

Next ==
    \/ Main
    \/ SliderDrag
    \/ PlayClicked
    \/ StreamPlay
    \/ Recv
    \/ StreamPause
    \/ Finish
    \/ CallbackInvoke
    \/ WriteFrame
    \/ CallbackReturn

Spec == Init /\ [][Next]_vars

\* Startup with an argument, up to the first interactions with the window.
NextArgs ==
    \/ Main
    \/ SliderDrag

SpecArgs == InitArgs /\ [][NextArgs]_vars

----------------------------------------------------------------------------
(* lib.rs: the serde data model. A JSON object is a function from its keys  *)
(* to its members' values, a JSON array a sequence, a JSON number an        *)
(* integer; a Result is Ok(v) or Err.                                       *)

Ok(v) == [ok |-> TRUE, value |-> v]

Err == [ok |-> FALSE]

\* <usize as Default>::default(), what #[serde(default)] on a usize field uses.
UsizeDefault == 0

\* impl Default for Parameters
ParametersDefault == [time |-> 1]

\* Deserialize for usize: a JSON number that is a non-negative integer.
IsUsize(n) == n >= 0

\* #[derive(Deserialize)] for Parameters { #[serde(default)] time: usize }:
\* unknown members are skipped, a missing time takes the field type's default.
DecodeParameters(doc) ==
    IF "time" \in DOMAIN doc
      THEN IF IsUsize(doc.time) THEN Ok([time |-> doc.time]) ELSE Err
      ELSE Ok([time |-> UsizeDefault])

\* An encoder that leaves out a time equal to the field's default.
EncodeParametersSkipDefault(p) ==
    IF p.time = ParametersDefault.time THEN <<>> ELSE [time |-> p.time]

\* #[derive(Serialize)] for Parameters: every field is written.
EncodeParameters(p) == [time |-> p.time]

\* #[derive(Serialize)] for Waveform: externally tagged, {"<Variant>": <Parameters>}.
EncodeWaveform(w) == (w.kind :> EncodeParameters(w.params))

\* #[derive(Deserialize)] for Waveform: an object with exactly one key, which
\* names a variant, and whose value decodes as Parameters.
DecodeWaveform(doc) ==
    IF Cardinality(DOMAIN doc) = 1 /\ DOMAIN doc \subseteq Waveform
      THEN LET k == CHOOSE x \in DOMAIN doc : TRUE
               r == DecodeParameters(doc[k])
           IN  IF r.ok THEN Ok([kind |-> k, params |-> r.value]) ELSE Err
      ELSE Err

\* An encoder that writes the sequence back to front.
EncodeProjectReversed(p) ==
    [time |-> p.time,
     sequence |-> [i \in DOMAIN p.sequence |->
                      EncodeWaveform(p.sequence[Len(p.sequence) + 1 - i])]]

\* #[derive(Serialize)] for Project (lib.rs)
EncodeProject(p) ==
    [time |-> p.time,
     sequence |-> [i \in DOMAIN p.sequence |-> EncodeWaveform(p.sequence[i])]]

\* A decoder that takes a missing sequence as empty (#[serde(default)]).
DecodeProjectLenient(doc) ==
    LET items == IF "sequence" \in DOMAIN doc THEN doc.sequence ELSE <<>>
    IN  IF /\ "time" \in DOMAIN doc
           /\ IsUsize(doc.time)
           /\ \A i \in DOMAIN items : DecodeWaveform(items[i]).ok
          THEN Ok([time |-> doc.time,
                   sequence |-> [i \in DOMAIN items |-> DecodeWaveform(items[i]).value]])
          ELSE Err

\* #[derive(Deserialize)] for Project (lib.rs): both fields are required.
DecodeProject(doc) ==
    IF /\ "time" \in DOMAIN doc
       /\ IsUsize(doc.time)
       /\ "sequence" \in DOMAIN doc
       /\ \A i \in DOMAIN doc.sequence : DecodeWaveform(doc.sequence[i]).ok
      THEN Ok([time |-> doc.time,
               sequence |-> [i \in DOMAIN doc.sequence |->
                                DecodeWaveform(doc.sequence[i]).value]])
      ELSE Err

\* Project::try_from(path): fs::read_to_string(path)?, then serde_json::from_str.
TryFromPath(file) ==
    CASE file.kind = "missing" -> Err
      [] file.kind = "malformed" -> Err
      [] file.kind = "json" -> DecodeProject(file.doc)

\* main.rs: a unit variant of Waveform is written as the string of its name.
JsonString(str) == [string |-> str]

\* #[derive(Serialize)] for main.rs Project, as serialize_project() calls it.
SerializeProject(p) ==
    [time |-> p.time,
     sequence |-> [i \in DOMAIN p.sequence |-> JsonString(p.sequence[i])]]

\* #[derive(Deserialize)] for main.rs Project, as Project::default() calls it.
DeserializeProject(doc) ==
    IF /\ "time" \in DOMAIN doc
       /\ IsUsize(doc.time)
       /\ "sequence" \in DOMAIN doc
       /\ \A i \in DOMAIN doc.sequence :
              /\ DOMAIN doc.sequence[i] = {"string"}
              /\ doc.sequence[i].string \in Waveform
      THEN Ok([time |-> doc.time,
               sequence |-> [i \in DOMAIN doc.sequence |-> doc.sequence[i].string]])
      ELSE Err

(* The values and documents the operations are applied to *)

\* Project times: the slider's range as far as the bound goes, and one beyond it.
Times == (0..MaxTime) \cup {SliderMax + 1}

ParametersValues == [time : 0..MaxTime]

WaveformValues == [kind : Waveform, params : ParametersValues]

LibProjects == [time : Times, sequence : SeqsUpTo(WaveformValues, MaxSeqLen)]

MainProjects == [time : Times, sequence : SeqsUpTo(Waveform, MaxSeqLen)]

\* f with only the keys in D.
Restrict(f, D) == [k \in (DOMAIN f) \cap D |-> f[k]]

\* Parameters objects: with or without time, with or without an unknown member,
\* time possibly not a usize.
ParametersDocs ==
    {Restrict(d, D) : d \in [time : (-1)..MaxTime, gain : {7}],
                      D \in SUBSET {"time", "gain"}}

\* Arrays a sequence member may hold: encoded waveforms, and single elements
\* that name no variant, hold two keys or leave the Parameters' time out.
SequenceDocs ==
    {[i \in DOMAIN q |-> EncodeWaveform(q[i])] : q \in SeqsUpTo(WaveformValues, MaxSeqLen)}
        \cup {<<("Triangle" :> [time |-> 1])>>,
              <<[Sine |-> [time |-> 1], Saw |-> [time |-> 1]]>>,
              <<("Square" :> <<>>)>>}

\* Project objects: any subset of time, sequence and an unknown member.
ProjectDocs ==
    {Restrict(d, D) : d \in [time : {-1, 1}, sequence : SequenceDocs, title : {7}],
                      D \in SUBSET {"time", "sequence", "title"}}

Files ==
    {[kind |-> "missing"], [kind |-> "malformed"]}
        \cup [kind : {"json"}, doc : ProjectDocs]

\* A lib.rs operation is about to be applied to one of its inputs.
InitLib ==
    /\ args = <<>>
    /\ argFile = NoFile
    /\ pc = "Lib"
    /\ device = NoDevice
    /\ project = NoProject
    /\ synth = <<>>
    /\ stream = "none"
    /\ chan = 0
    /\ result = "none"
    /\ cb = "idle"
    /\ output = <<>>
    /\ frame = 0
    /\ avail = 0
    /\ sent = 0
    /\ received = 0
    /\ generated = 0
    /\ written = <<>>
    /\ op = "ready"
    /\ wire = Null
    /\ decoded = Null
    /\ \/ input \in [kind : {"ParametersDoc"}, v : ParametersDocs]
       \/ input \in [kind : {"Waveform"}, v : WaveformValues]
       \/ input \in [kind : {"Project"}, v : LibProjects]
       \/ input \in [kind : {"File"}, v : Files]
       \/ input \in [kind : {"AppProject"}, v : MainProjects]

app == <<pc, args, argFile, project, device, result, audio>>

\* serde_json::from_str::<Parameters>(input)
ParametersFromStr ==
    /\ op = "ready"
    /\ input.kind = "ParametersDoc"
    /\ decoded' = DecodeParameters(input.v)
    /\ op' = "ParametersFromStr"
    /\ UNCHANGED <<app, input, wire>>

\* serde_json::to_string(&waveform), then from_str::<Waveform> of the result
\* (test_waveform_parameters_serde, for any Waveform).
WaveformRoundTrip ==
    /\ op = "ready"
    /\ input.kind = "Waveform"
    /\ wire' = EncodeWaveform(input.v)
    /\ decoded' = DecodeWaveform(wire')
    /\ op' = "WaveformRoundTrip"
    /\ UNCHANGED <<app, input>>

\* serde_json::to_string(&project), then from_str::<Project> of the result.
ProjectRoundTrip ==
    /\ op = "ready"
    /\ input.kind = "Project"
    /\ wire' = EncodeProject(input.v)
    /\ decoded' = DecodeProject(wire')
    /\ op' = "ProjectRoundTrip"
    /\ UNCHANGED <<app, input>>

\* Project::try_from(path) with the file at path in state input
ProjectTryFrom ==
    /\ op = "ready"
    /\ input.kind = "File"
    /\ decoded' = TryFromPath(input.v)
    /\ op' = "ProjectTryFrom"
    /\ UNCHANGED <<app, input, wire>>

\* SynthApp::serialize_project(), then from_str::<Project> (main.rs) of the result.
AppProjectRoundTrip ==
    /\ op = "ready"
    /\ input.kind = "AppProject"
    /\ wire' = SerializeProject(input.v)
    /\ decoded' = DeserializeProject(wire')
    /\ op' = "AppProjectRoundTrip"
    /\ UNCHANGED <<app, input>>

NextLib ==
    \/ ParametersFromStr
    \/ WaveformRoundTrip
    \/ ProjectRoundTrip
    \/ ProjectTryFrom
    \/ AppProjectRoundTrip

SpecLib == InitLib /\ [][NextLib]_vars

----------------------------------------------------------------------------
(* Properties of playback *)

\* The frame (chunk) a slot of the output slice belongs to.
FrameOf(i, channels) == ((i - 1) \div channels) + 1

\* The device's representation of the sample 0.0.
Silence(fmt) == FromF32(fmt, 0)

Playing == pc \in {"Start", "Recv", "Pause", "Finish"}

\* C1 as stated: within one play() invocation at most one completion message is
\* ever successfully placed into the channel, also counting callbacks that run
\* after play() has received the signal and before the stream is stopped.
C1_AtMostOneMessagePlaced == sent <= 1

\* C1 amended: play() receives at most one completion message and at most one is
\* placed before it is received; the channel never holds more than its bound;
\* after the reception at most one further message is placed.
C1_AtMostOneMessageReceived ==
    /\ received <= 1
    /\ chan <= ChannelBound
    /\ (received = 0 => sent <= 1)
    /\ sent <= received + 1

\* A second message was placed after play() had taken the first.
C1_Witness == sent = 2 /\ received = 1 /\ chan = 1

\* C2: when a callback returns, every slot of its slice has been written, and
\* every frame after the last sample the source still had holds silence on all
\* its channels (so a callback begun after exhaustion leaves only silence).
C2_TrailingFramesSilent ==
    cb = "returned" =>
        \A i \in 1..Len(output) :
            /\ output[i].set
            /\ (FrameOf(i, device.channels) > avail =>
                    output[i].val = Silence(device.sample_format))

\* A returned callback whose slice ran past the end of a non-empty source, on a
\* multi-channel device.
C2_Witness ==
    /\ cb = "returned"
    /\ avail > 0
    /\ avail < Chunks(Len(output), device.channels)
    /\ device.channels = 2
    /\ Len(output) = MaxBufLen

\* C3: play() on an empty sequence synthesizes nothing; the first callback that
\* is asked for at least one frame writes only silence and signals completion,
\* which unblocks play(); a play() whose stream calls succeed returns Ok.
C3_EmptySequenceCompletes ==
    (Playing /\ project.sequence = <<>>) =>
        /\ generated = 0
        /\ synth = <<>>
        /\ ((cb = "returned" /\ Len(output) >= 1) =>
                /\ \A i \in 1..Len(output) :
                       output[i] = Written(Silence(device.sample_format))
                /\ sent >= 1
                /\ (chan = 1 \/ received = 1))
        /\ ((pc = "Finish" /\ stream = "paused") => result = "Ok" /\ received = 1)

\* play() on an empty sequence with a non-zero duration is about to return Ok.
C3_Witness ==
    /\ project.sequence = <<>>
    /\ project.time > 0
    /\ pc = "Finish"
    /\ result = "Ok"
    /\ cb = "returned"
    /\ Len(output) >= 1

C7_ReturnsToIdle == [][(pc = "Finish" /\ pc' # "Finish") => pc' = "Idle"]_vars

\* C8 as stated: when a first argument is given, the window only opens with the
\* Project loaded from that file; a file that cannot be read or parsed never
\* leads to an open window.
C8_ArgumentLoadsProject ==
    (args # <<>> /\ pc = "Idle") =>
        /\ argFile.kind = "project"
        /\ project.sequence = argFile.doc.sequence

----------------------------------------------------------------------------
(* Properties of the data model *)

\* C5 as stated: a Parameters decoded from a JSON object without a time member
\* has time = 1.
C5_MissingTimeIsOne ==
    (op = "ParametersFromStr" /\ "time" \notin DOMAIN input.v) =>
        (decoded.ok /\ decoded.value.time = 1)

\* C6: encoding any Waveform (any variant, any Parameters) to JSON and decoding
\* the result gives back an equal Waveform.
C6_WaveformRoundTrip == op = "WaveformRoundTrip" => decoded = Ok(input.v)

\* A NoiseSimplex with the largest time went through the round trip.
C6_Witness ==
    /\ op = "WaveformRoundTrip"
    /\ input.v = [kind |-> "NoiseSimplex", params |-> [time |-> MaxTime]]
    /\ decoded.ok

\* C9: loading a file that holds a JSON object without a sequence member gives
\* an error, never a Project.
C9_MissingSequenceFails ==
    (/\ op = "ProjectTryFrom"
     /\ input.v.kind = "json"
     /\ "sequence" \notin DOMAIN input.v.doc) => ~decoded.ok

\* A file with a valid time and no sequence was loaded.
C9_Witness ==
    /\ op = "ProjectTryFrom"
    /\ input.v.kind = "json"
    /\ DOMAIN input.v.doc = {"time", "title"}
    /\ input.v.doc.time = 1
    /\ decoded = Err

\* C10: encoding any Project to JSON and decoding the result gives back an
\* equal Project, same time and same sequence in the same order, also when the
\* time lies outside the slider's range; for lib.rs's and for main.rs's Project.
C10_ProjectRoundTrip ==
    /\ (op = "ProjectRoundTrip" =>
            /\ decoded.ok
            /\ decoded.value.time = input.v.time
            /\ decoded.value.sequence = input.v.sequence)
    /\ (op = "AppProjectRoundTrip" => decoded = Ok(input.v))

\* A Project with a time beyond the slider's range and two different entries
\* went through the round trip.
C10_Witness ==
    /\ op = "ProjectRoundTrip"
    /\ input.v.time = SliderMax + 1
    /\ Len(input.v.sequence) = 2
    /\ input.v.sequence[1] # input.v.sequence[2]
    /\ decoded.ok

----------------------------------------------------------------------------
(* The application on a platform that keeps calling the data callback *)

\* A callback on a slice of at least one frame.
CallbackInvokeFrame == CallbackInvoke /\ Chunks(Len(output'), device.channels) >= 1

\* The callback thread and the GUI thread both keep running; the slices the
\* platform hands out are not empty for ever.
Fairness ==
    /\ SF_vars(CallbackInvokeFrame)
    /\ WF_vars(WriteFrame)
    /\ WF_vars(CallbackReturn)
    /\ WF_vars(StreamPlay)
    /\ WF_vars(Recv)
    /\ WF_vars(StreamPause)
    /\ WF_vars(Finish)

SpecFair == Init /\ [][Next]_vars /\ Fairness

----------------------------------------------------------------------------
(* Properties of the window, of run() and of the callback, continued *)

Max(a, b) == IF a > b THEN a ELSE b

\* The value frame k of a play() is to hold: sample k in the device's format,
\* silence after the last sample.
Expected(samples, k, fmt) ==
    FromF32(fmt, IF k <= Len(samples) THEN samples[k] ELSE 0)

\* C11: after any slider interactions and Play clicks the Project's time, which
\* the slider is bound to, lies within 0..60.
C11_TimeWithinSliderRange == project.time \in 0..SliderMax

\* The slider was dragged to its upper end.
C11_Witness == pc = "Idle" /\ project.time = SliderMax

\* C12: play() takes the completion signal, stops the stream or returns Ok only
\* when the source is exhausted and every synthesized sample has been pulled
\* and written to an output slice.
C12_NoSampleCutOff ==
    (received >= 1 \/ stream = "paused" \/ result = "Ok") =>
        /\ synth = <<>>
        /\ Len(written) >= generated

\* play() has received the signal of the longest sequence played.
C12_Witness == pc = "Pause" /\ received = 1 /\ generated = MaxSamples

\* C13: when the platform keeps invoking the callback with slices of at least
\* one frame, a play() that has started returns; it leaves the wait on the
\* channel only by receiving the completion signal.
C13_PlayReturns ==
    /\ (pc \in {"Start", "Recv", "Pause"}) ~> (pc \in {"Idle", "Panicked"})
    /\ [][(pc = "Recv" /\ pc' # "Recv") =>
             (chan > 0 /\ received' = received + 1 /\ pc' = "Pause")]_vars

\* play() is blocked on the channel with samples still to be written, and no
\* callback running.
C13_Witness == pc = "Recv" /\ synth # <<>> /\ cb = "returned" /\ sent = 0

\* C14: while a play() call has not returned, the GUI thread handles no event:
\* the Project does not change and no second stream is built; a stream is only
\* built from Idle, with no other stream in existence.
C14_OnePlaybackAtATime ==
    [][/\ (Playing => project' = project)
       /\ ((stream' = "built" /\ stream # "built") => (pc = "Idle" /\ stream = "none"))
       /\ (stream # "none" => Playing)]_vars

\* A play() is blocked on the channel while the callback is writing samples.
C14_Witness == pc = "Recv" /\ cb = "running" /\ synth # <<>> /\ frame > 0

\* C15: with N = sample_rate * time, sample i (from 0) of the synthesized stream
\* is sample i mod N of a freshly started oscillator of entry floor(i / N).
C15_SegmentsInOrder ==
    (pc = "Start" /\ Len(synth) = generated) =>
        LET N == device.sample_rate * project.time
        IN  \A i \in 0..(generated - 1) :
                synth[i + 1] =
                    Scale(Oscillator(project.sequence[(i \div N) + 1], i % N,
                                     device.sample_rate))

\* Two Noise entries: the second segment repeats the first, which is not
\* constant, and a Saw entry before a Noise entry differs from the reverse.
C15_Witness ==
    /\ pc = "Start"
    /\ project.sequence = <<"Noise", "Noise">>
    /\ project.time = 2
    /\ device.sample_rate = 3
    /\ Len(synth) = 12
    /\ synth[7] = synth[1]
    /\ synth[8] = synth[2]
    /\ synth[2] # synth[1]

\* C17: in every frame the callback has written all channels hold the same
\* value, also in a last frame cut short by the end of the slice, the frames
\* are written in order, and each frame takes one sample from the source.
C17_ChannelsAgree ==
    cb \in {"running", "returned"} =>
        /\ \A i, j \in 1..Len(output) :
               FrameOf(i, device.channels) = FrameOf(j, device.channels) =>
                   output[i] = output[j]
        /\ \A i \in 1..Len(output) :
               output[i].set <=> (FrameOf(i, device.channels) <= frame)
        /\ Len(synth) = Max(avail - frame, 0)

\* A stereo callback returned whose slice ends in the middle of a frame and
\* whose frames hold different samples.
C17_Witness ==
    /\ cb = "returned"
    /\ device.channels = 2
    /\ Len(output) = 3
    /\ avail >= 2
    /\ output[1].val = output[2].val
    /\ output[3].val # output[1].val

\* C18 as stated: when stream construction or stream start fails, play() returns
\* the error without having waited and no callback has written anything.
C18_NoOutputOnFailure ==
    (pc = "Finish" /\ result = "Err" /\ stream \in {"none", "built"}) =>
        /\ received = 0
        /\ written = <<>>
        /\ cb = "idle"

\* C18 amended: when stream construction fails, play() returns the error
\* without having waited and no callback has run; when stream start fails,
\* play() returns the error without having waited (callbacks of a stream that
\* runs from its creation may have written samples by then).
C18_NoWaitOnFailure ==
    (pc = "Finish" /\ result = "Err") =>
        /\ (stream = "none" =>
               received = 0 /\ sent = 0 /\ written = <<>> /\ cb = "idle")
        /\ (stream = "built" => received = 0)

\* stream.play() failed after callbacks had written samples.
C18_Witness ==
    /\ pc = "Finish"
    /\ result = "Err"
    /\ stream = "built"
    /\ received = 0
    /\ written # <<>>

\* C19: the values of the frames written during a play(), in callback order,
\* are the scaled samples in order and then zeros; as long as the source is
\* not exhausted it holds exactly the samples not yet written.
C19_FramesInOrder ==
    Playing =>
        LET samples == Synth(project, device)
        IN  /\ \A k \in 1..Len(written) :
                   written[k] = Expected(samples, k, device.sample_format)
            /\ Len(written) <= Recorded(generated)
            /\ (synth # <<>> =>
                   /\ Len(written) = generated - Len(synth)
                   /\ synth = SubSeq(samples, Len(written) + 1, Len(samples)))
            /\ (synth = <<>> /\ stream # "none" => Len(written) >= generated)

\* A callback that began in the middle of the samples ran past their end.
C19_Witness ==
    /\ cb = "returned"
    /\ avail > 0
    /\ avail < generated
    /\ generated >= 4
    /\ Len(written) = generated + 1
    /\ written[1] # written[2]

====
